---- MODULE Spec2Model ----
(***************************************************************************)
(* Batch IP lookup server (server.js): the input normalizer normalizeIPs   *)
(* with its shape check isLikelyIP, the chunked dispatcher lookupIPs and   *)
(* the POST /api/lookup handler.                                           *)
(*                                                                         *)
(* Strings are sequences of one-character strings, so that trimming,       *)
(* splitting and the two regular expressions of isLikelyIP are computed    *)
(* character by character.                                                 *)
(*                                                                         *)
(* MAX_IPS and BATCH_SIZE are 6000 and 100 in the source.  The model keeps *)
(* the names and every comparison the code makes with them, and scales the *)
(* values to 5 and 2 so that runs of one, two and three chunks (2, 2, 1 in *)
(* place of 100, 100, 50) and address counts MAX_IPS and MAX_IPS + 1 are   *)
(* enumerable.  SLEEP_MS keeps its value.                                  *)
(***************************************************************************)
EXTENDS Integers, Sequences, FiniteSets, TLC

VARIABLES
    input,      \* req.body.input of each request
    pc,         \* where each request's handler stands
    ips,        \* normalizeIPs(...).ips
    rejected,   \* normalizeIPs(...).rejected
    i,          \* loop index of lookupIPs
    batch,      \* the chunk of the current iteration
    results,    \* the results array of lookupIPs
    timer,      \* ms left on the pending setTimeout of sleep(SLEEP_MS)
    response,   \* what the handler answered (status 0: nothing yet)
    sent,       \* history: the bodies of the outbound calls issued, in order
    answers,    \* history: how each outbound call settled, in order
    progressLog,\* history: the arguments of each onProgress invocation
    sleeps,     \* history: number of sleep(SLEEP_MS) suspensions begun
    waited      \* history: ms spent in the latest suspension

vars == <<input, pc, ips, rejected, i, batch, results, timer, response,
          sent, answers, progressLog, sleeps, waited>>

----------------------------------------------------------------------------
(* Program constants *)

MAX_IPS == 5
BATCH_SIZE == 2
SLEEP_MS == 750

(* Bounds of the model *)

\* largest number of distinct addresses in a handler input
MaxAddrs == 6
\* largest number of tokens of an input of the normalizer specification
MaxTokens == 3
\* ms by which one Tick advances time
TickMs == 375

----------------------------------------------------------------------------
(* Characters and strings *)

Digits == {"0", "1", "2", "3", "4", "5", "6", "7", "8", "9"}
HexChars == Digits \cup {"a", "b", "c", "d", "e", "f", "A", "B", "C", "D", "E", "F"}
\* the white space of String.prototype.trim and of \s that the inputs use
WhiteSpace == {" ", "\t", "\n", "\r"}

Min(a, b) == IF a < b THEN a ELSE b
Max(a, b) == IF a > b THEN a ELSE b

RECURSIVE TrimLeft(_)
TrimLeft(s) ==
    IF s # <<>> /\ Head(s) \in WhiteSpace THEN TrimLeft(Tail(s)) ELSE s

RECURSIVE TrimRight(_)
TrimRight(s) ==
    IF s # <<>> /\ s[Len(s)] \in WhiteSpace
    THEN TrimRight(SubSeq(s, 1, Len(s) - 1))
    ELSE s

\* s.trim()
Trim(s) == TrimRight(TrimLeft(s))

\* .replace(/^\[/, '')
StripOpen(s) == IF s # <<>> /\ Head(s) = "[" THEN Tail(s) ELSE s

\* .replace(/\]$/, '')
StripClose(s) ==
    IF s # <<>> /\ s[Len(s)] = "]" THEN SubSeq(s, 1, Len(s) - 1) ELSE s

\* the groups of t between its dots
RECURSIVE DotGroups(_)
DotGroups(t) ==
    IF \E k \in 1..Len(t) : t[k] = "."
    THEN LET k == CHOOSE k \in 1..Len(t) :
                      t[k] = "." /\ \A j \in 1..(k - 1) : t[j] # "."
         IN  <<SubSeq(t, 1, k - 1)>> \o DotGroups(SubSeq(t, k + 1, Len(t)))
    ELSE <<t>>

\* /^(?:\d{1,3}\.){3}\d{1,3}$/.test(t)
MatchesIPv4(t) ==
    LET g == DotGroups(t)
    IN  /\ Len(g) = 4
        /\ \A k \in 1..4 :
              /\ Len(g[k]) \in 1..3
              /\ \A j \in 1..Len(g[k]) : g[k][j] \in Digits

\* /:/.test(t) && /^[0-9a-fA-F:]+$/.test(t)
MatchesIPv6(t) ==
    /\ \E k \in 1..Len(t) : t[k] = ":"
    /\ Len(t) >= 1
    /\ \A k \in 1..Len(t) : t[k] \in HexChars \cup {":"}

isLikelyIP(s) ==
    IF s = <<>> THEN FALSE
    ELSE LET t == StripClose(StripOpen(Trim(s)))
         IN  MatchesIPv4(t) \/ MatchesIPv6(t)

----------------------------------------------------------------------------
(* normalizeIPs *)

\* length of the separator /\r?\n|,|\s+/ matched at position p of s (0: none);
\* the alternatives are tried in the order written
RECURSIVE SpaceRun(_, _)
SpaceRun(s, p) ==
    IF p <= Len(s) /\ s[p] \in WhiteSpace THEN 1 + SpaceRun(s, p + 1) ELSE 0

SepLen(s, p) ==
    IF s[p] = "\r" /\ p < Len(s) /\ s[p + 1] = "\n" THEN 2
    ELSE IF s[p] = "\n" THEN 1
    ELSE IF s[p] = "," THEN 1
    ELSE SpaceRun(s, p)

\* s.split(/\r?\n|,|\s+/): `from` is where the current piece began, p the
\* position being tried
RECURSIVE SplitFrom(_, _, _)
SplitFrom(s, from, p) ==
    IF p > Len(s) THEN <<SubSeq(s, from, Len(s))>>
    ELSE IF SepLen(s, p) > 0
         THEN <<SubSeq(s, from, p - 1)>>
                  \o SplitFrom(s, p + SepLen(s, p), p + SepLen(s, p))
         ELSE SplitFrom(s, from, p + 1)

\* ''.split(re) is [''] as well
Split(s) == SplitFrom(s, 1, 1)

\* Array.from(new Set(list)): a Set keeps the insertion order of first
\* occurrences
RECURSIVE SetOrder(_, _)
SetOrder(list, seen) ==
    IF list = <<>> THEN <<>>
    ELSE IF Head(list) \in seen THEN SetOrder(Tail(list), seen)
    ELSE <<Head(list)>> \o SetOrder(Tail(list), seen \cup {Head(list)})

\* no Set at all: Array.from(list)
UniqNoSet(list) == list

Uniq(list) == SetOrder(list, {})

\* Boolean(s) of a string
NonEmpty(s) == s # <<>>
\* x => !isLikelyIP(x)
NotLikelyIP(s) == ~isLikelyIP(s)

\* the local `list` of normalizeIPs
TokenList(in) ==
    IF in.kind = "array" THEN in.items
    ELSE IF in.kind = "string"
         THEN SelectSeq([k \in 1..Len(Split(in.chars)) |-> Trim(Split(in.chars)[k])],
                        NonEmpty)
    ELSE <<>>

\* the rejected tokens passed through a Set as well
RejectedOnce(list) == SetOrder(SelectSeq(list, NotLikelyIP), {})

RejectedOf(list) == SelectSeq(list, NotLikelyIP)

normalizeIPs(in) ==
    LET list == TokenList(in)
        uniq == Uniq(SelectSeq(list, isLikelyIP))
    IN  IF Len(uniq) = 0 THEN [ips |-> <<>>, rejected |-> list]
        ELSE [ips |-> uniq, rejected |-> RejectedOf(list)]

----------------------------------------------------------------------------
(* The inputs the requests carry *)

Str(chars) == [kind |-> "string", chars |-> chars]
Arr(items) == [kind |-> "array", items |-> items]
Missing == [kind |-> "missing"]

\* the n-th address: 10.0.0.n for odd n, ::n for even n
Addr(n) ==
    IF n % 2 = 1 THEN <<"1", "0", ".", "0", ".", "0", ".", ToString(n)>>
    ELSE <<":", ":", ToString(n)>>

NotAnIp == <<"n", "o", "t", "-", "a", "n", "-", "i", "p">>
Quad8 == <<"8", ".", "8", ".", "8", ".", "8">>
Bracketed == <<"[", ":", ":", "1", "]">>
ThreeGroups == <<"1", ".", "2", ".", "3">>
LongGroup == <<"1", "2", "3", "4", ".", "1", ".", "1", ".", "1">>
Padded == <<" ", "8", ".", "8", ".", "8", ".", "8", " ">>
AllNines == <<"9", "9", "9", ".", "9", "9", "9", ".", "9", "9", "9", ".", "9", "9", "9">>

RECURSIVE Join(_, _)
Join(list, sep) ==
    IF list = <<>> THEN <<>>
    ELSE IF Len(list) = 1 THEN list[1]
    ELSE list[1] \o sep \o Join(Tail(list), sep)

\* n distinct addresses, clean or with a rejected token or a repeated address
AddrList(n, noise) ==
    LET base == [k \in 1..n |-> Addr(k)]
    IN  IF noise = "junk" THEN <<NotAnIp>> \o base \o <<ThreeGroups, NotAnIp>>
        ELSE IF noise = "dup" /\ n > 0 THEN base \o <<Addr(1)>>
        ELSE base

Noises == {"none", "junk", "dup"}

HandlerInputs ==
    {Missing, Str(<<>>)}
        \cup {Arr(AddrList(n, z)) : n \in 0..MaxAddrs, z \in Noises}
        \cup {Str(Join(AddrList(n, z), <<",", " ">>)) : n \in 0..MaxAddrs, z \in Noises}

\* largest number of addresses of a request of the two-request specification
MaxPairAddrs == 3

PairInputs == {Arr(AddrList(n, "none")) : n \in {0, MaxPairAddrs}}

ArrayTokens == {Quad8, Bracketed, ThreeGroups, Padded, LongGroup, AllNines, <<>>}
StringTokens == {Quad8, Bracketed, NotAnIp, <<>>}
Separators == {<<"\n">>, <<"\r", "\n">>, <<",", " ", " ">>}

SeqsUpTo(S, n) == UNION {[1..k -> S] : k \in 0..n}

RECURSIVE Concat(_)
Concat(ss) == IF ss = <<>> THEN <<>> ELSE Head(ss) \o Concat(Tail(ss))

NormInputs ==
    {Missing}
        \cup {Arr(a) : a \in SeqsUpTo(ArrayTokens, MaxTokens)}
        \cup {Str(Concat([k \in 1..Len(p) |-> p[k][1] \o p[k][2]])) :
                 p \in SeqsUpTo(StringTokens \X Separators, MaxTokens)}

----------------------------------------------------------------------------
(* lookupIPs and the handler of POST /api/lookup *)

Reqs == DOMAIN input

NoResponse == [status |-> 0]

InitRest ==
    /\ pc = [r \in Reqs |-> "idle"]
    /\ ips = [r \in Reqs |-> <<>>]
    /\ rejected = [r \in Reqs |-> <<>>]
    /\ i = [r \in Reqs |-> 0]
    /\ batch = [r \in Reqs |-> <<>>]
    /\ results = [r \in Reqs |-> <<>>]
    /\ timer = [r \in Reqs |-> 0]
    /\ response = [r \in Reqs |-> NoResponse]
    /\ sent = [r \in Reqs |-> <<>>]
    /\ answers = [r \in Reqs |-> <<>>]
    /\ progressLog = [r \in Reqs |-> <<>>]
    /\ sleeps = [r \in Reqs |-> 0]
    /\ waited = [r \in Reqs |-> 0]

\* one request
Init == input \in [{1} -> HandlerInputs] /\ InitRest

\* two requests in flight together
InitPair == input \in [{1, 2} -> PairInputs] /\ InitRest

\* one call of normalizeIPs
InitNorm == input \in [{1} -> NormInputs] /\ InitRest

\* input || ''
OrEmptyString(in) ==
    IF in.kind = "missing" \/ (in.kind = "string" /\ in.chars = <<>>)
    THEN Str(<<>>)
    ELSE in

\* ips.slice(i, i + BATCH_SIZE)
Slice(a, from, to) == SubSeq(a, from + 1, Min(to, Len(a)))

\* a slice one element too long: ips.slice(i, i + BATCH_SIZE + 1)
NextBatchOverlap(a, from) == Slice(a, from, from + BATCH_SIZE + 1)

NextBatch(a, from) == Slice(a, from, from + BATCH_SIZE)

\* resp.ok
IsOk(status) == status \in 200..299

\* placeholders whose message drops resp.status
ErrArrNoStatus(b, status) ==
    [k \in 1..Len(b) |-> [query |-> b[k], status |-> "fail", message |-> "HTTP"]]

\* batch.map(ip => ({ query: ip, status: 'fail', message: `HTTP ${resp.status}` }))
ErrArr(b, status) ==
    [k \in 1..Len(b) |->
        [query |-> b[k], status |-> "fail", message |-> "HTTP " \o ToString(status)]]

\* results.push(recs) without the spread: one element per chunk
PushNested(res, r, recs) == [res EXCEPT ![r] = Append(@, recs)]

\* one results array at module level, shared by every request
PushShared(res, r, recs) == [q \in DOMAIN res |-> res[q] \o recs]

\* results.push(...recs) on the results array of request r
Push(res, r, recs) == [res EXCEPT ![r] = @ \o recs]

\* the count advanced by BATCH_SIZE, not by batch.length, and not capped
ProgressArgsUncapped(a, from, b) == <<from + BATCH_SIZE, Len(a)>>

\* the arguments of onProgress
ProgressArgs(a, from, b) == <<Min(Len(a), from + Len(b)), Len(a)>>

\* i + BATCH_SIZE <= ips.length
MoreChunksInclusive(a, from) == from + BATCH_SIZE <= Len(a)

\* i + BATCH_SIZE < ips.length
MoreChunks(a, from) == from + BATCH_SIZE < Len(a)

\* the loop condition i < ips.length
LoopContinues(a, from) == from < Len(a)

\* !ips.length
NoneValid(a) == Len(a) = 0

\* ips.length >= MAX_IPS
TooManyInclusive(a) == Len(a) >= MAX_IPS

\* ips.length > MAX_IPS
TooMany(a) == Len(a) > MAX_IPS

NoValidEnvelope(rej) ==
    [status |-> 400, error |-> "no valid IP", rejected |-> rej]

TooManyEnvelope(a) ==
    [status |-> 400,
     error |-> "at most " \o ToString(MAX_IPS) \o ", got " \o ToString(Len(a))]

OkEnvelope(a, rej, res) ==
    [status |-> 200, total |-> Len(a), rejected |-> rej, results |-> res]

ErrorEnvelope == [status |-> 500, error |-> "internal error"]

\* what the upstream service may answer
HttpStatuses == {200, 429, 500}

SuccessRecord(ip) == [query |-> ip, status |-> "success", country |-> "ZZ"]
InvalidRecord(ip) == [query |-> ip, status |-> "fail", message |-> "invalid query"]

ExactBody(b) == [k \in 1..Len(b) |-> SuccessRecord(b[k])]

\* the arrays resp.json() may yield for a chunk: one record per address in
\* order, the same with the first address refused, one record short, one
\* record long, and the records in reverse order
Bodies(b) ==
    { ExactBody(b),
      [k \in 1..Len(b) |-> IF k = 1 THEN InvalidRecord(b[k]) ELSE SuccessRecord(b[k])],
      SubSeq(ExactBody(b), 1, Len(b) - 1),
      ExactBody(b) \o <<SuccessRecord(Quad8)>>,
      [k \in 1..Len(b) |-> SuccessRecord(b[Len(b) + 1 - k])] }

\* the loop of lookupIPs from its condition, with i = from, up to the fetch
\* of that iteration, or to the return when the condition fails
Iterate(r, a, from) ==
    /\ i' = [i EXCEPT ![r] = from]
    /\ IF LoopContinues(a, from)
       THEN /\ batch' = [batch EXCEPT ![r] = NextBatch(a, from)]
            /\ sent' = [sent EXCEPT ![r] = Append(@, NextBatch(a, from))]
            /\ pc' = [pc EXCEPT ![r] = "fetch"]
       ELSE /\ pc' = [pc EXCEPT ![r] = "returned"]
            /\ UNCHANGED <<batch, sent>>

\* the handler up to its first await: normalization, the two validations,
\* and the first iteration of lookupIPs up to the fetch
Receive(r) ==
    /\ pc[r] = "idle"
    /\ LET n == normalizeIPs(OrEmptyString(input[r]))
       IN  /\ ips' = [ips EXCEPT ![r] = n.ips]
           /\ rejected' = [rejected EXCEPT ![r] = n.rejected]
           /\ IF NoneValid(n.ips)
              THEN /\ response' = [response EXCEPT ![r] = NoValidEnvelope(n.rejected)]
                   /\ pc' = [pc EXCEPT ![r] = "done"]
                   /\ UNCHANGED <<i, batch, results, sent>>
              ELSE IF TooMany(n.ips)
              THEN /\ response' = [response EXCEPT ![r] = TooManyEnvelope(n.ips)]
                   /\ pc' = [pc EXCEPT ![r] = "done"]
                   /\ UNCHANGED <<i, batch, results, sent>>
              ELSE /\ results' = [results EXCEPT ![r] = <<>>]
                   /\ Iterate(r, n.ips, 0)
                   /\ UNCHANGED response
    /\ UNCHANGED <<input, timer, answers, progressLog, sleeps, waited>>

\* the rest of the iteration once the chunk's records are known: push, onProgress, then
\* either the pacing sleep or the end of the loop and the return
AfterChunk(r, recs) ==
    /\ results' = Push(results, r, recs)
    /\ progressLog' = [progressLog EXCEPT ![r] =
                          Append(@, ProgressArgs(ips[r], i[r], batch[r]))]
    /\ IF MoreChunks(ips[r], i[r])
       THEN /\ pc' = [pc EXCEPT ![r] = "sleep"]
            /\ timer' = [timer EXCEPT ![r] = SLEEP_MS]
            /\ sleeps' = [sleeps EXCEPT ![r] = @ + 1]
            /\ waited' = [waited EXCEPT ![r] = 0]
            /\ UNCHANGED <<i, batch, sent>>
       ELSE /\ Iterate(r, ips[r], i[r] + BATCH_SIZE)
            /\ UNCHANGED <<timer, sleeps, waited>>

\* the fetch promise rejects: lookupIPs throws
FetchRejects(r) ==
    /\ pc[r] = "fetch"
    /\ answers' = [answers EXCEPT ![r] = Append(@, [kind |-> "reject"])]
    /\ pc' = [pc EXCEPT ![r] = "threw"]
    /\ UNCHANGED <<input, ips, rejected, i, batch, results, timer, response,
                   sent, progressLog, sleeps, waited>>

\* the fetch promise resolves with a response
FetchResolves(r) ==
    /\ pc[r] = "fetch"
    /\ \E status \in HttpStatuses :
          IF ~IsOk(status)
          THEN /\ answers' = [answers EXCEPT ![r] =
                                 Append(@, [kind |-> "http", status |-> status])]
               /\ AfterChunk(r, ErrArr(batch[r], status))
          ELSE /\ pc' = [pc EXCEPT ![r] = "json"]
               /\ UNCHANGED <<answers, i, batch, results, timer, sent,
                              progressLog, sleeps, waited>>
    /\ UNCHANGED <<input, ips, rejected, response>>

\* resp.json() resolves with an array
JsonResolves(r) ==
    /\ pc[r] = "json"
    /\ \E body \in Bodies(batch[r]) :
          /\ answers' = [answers EXCEPT ![r] =
                            Append(@, [kind |-> "ok", body |-> body])]
          /\ AfterChunk(r, body)
    /\ UNCHANGED <<input, ips, rejected, response>>

\* resp.json() rejects, or yields something results.push(...json) cannot spread
JsonRejects(r) ==
    /\ pc[r] = "json"
    /\ answers' = [answers EXCEPT ![r] = Append(@, [kind |-> "badbody"])]
    /\ pc' = [pc EXCEPT ![r] = "threw"]
    /\ UNCHANGED <<input, ips, rejected, i, batch, results, timer, response,
                   sent, progressLog, sleeps, waited>>

\* time passes while some sleep is pending
Tick ==
    /\ \E r \in Reqs : timer[r] > 0
    /\ timer' = [r \in Reqs |-> Max(0, timer[r] - TickMs)]
    /\ waited' = [r \in Reqs |-> waited[r] + Min(TickMs, timer[r])]
    /\ UNCHANGED <<input, pc, ips, rejected, i, batch, results, response,
                   sent, answers, progressLog, sleeps>>

\* the setTimeout of sleep fires: i += BATCH_SIZE and the next iteration
TimerFires(r) ==
    /\ pc[r] = "sleep"
    /\ timer[r] = 0
    /\ Iterate(r, ips[r], i[r] + BATCH_SIZE)
    /\ UNCHANGED <<input, ips, rejected, results, timer, response,
                   answers, progressLog, sleeps, waited>>

\* res.json({ total, rejected, results })
RespondOk(r) ==
    /\ pc[r] = "returned"
    /\ response' = [response EXCEPT ![r] = OkEnvelope(ips[r], rejected[r], results[r])]
    /\ pc' = [pc EXCEPT ![r] = "done"]
    /\ UNCHANGED <<input, ips, rejected, i, batch, results, timer,
                   sent, answers, progressLog, sleeps, waited>>

\* the catch block
RespondError(r) ==
    /\ pc[r] = "threw"
    /\ response' = [response EXCEPT ![r] = ErrorEnvelope]
    /\ pc' = [pc EXCEPT ![r] = "done"]
    /\ UNCHANGED <<input, ips, rejected, i, batch, results, timer,
                   sent, answers, progressLog, sleeps, waited>>

\* one call normalizeIPs(input)
Normalize(r) ==
    /\ pc[r] = "idle"
    /\ ips' = [ips EXCEPT ![r] = normalizeIPs(input[r]).ips]
    /\ rejected' = [rejected EXCEPT ![r] = normalizeIPs(input[r]).rejected]
    /\ pc' = [pc EXCEPT ![r] = "normalized"]
    /\ UNCHANGED <<input, i, batch, results, timer, response,
                   sent, answers, progressLog, sleeps, waited>>

Next ==
    \/ \E r \in Reqs : Receive(r)
    \/ \E r \in Reqs : FetchRejects(r)
    \/ \E r \in Reqs : FetchResolves(r)
    \/ \E r \in Reqs : JsonResolves(r)
    \/ \E r \in Reqs : JsonRejects(r)
    \/ \E r \in Reqs : TimerFires(r)
    \/ \E r \in Reqs : RespondOk(r)
    \/ \E r \in Reqs : RespondError(r)
    \/ Tick

NextNorm == \E r \in Reqs : Normalize(r)

Spec == Init /\ [][Next]_vars
SpecPair == InitPair /\ [][Next]_vars
SpecNorm == InitNorm /\ [][NextNorm]_vars

----------------------------------------------------------------------------
(* Properties of the dispatcher and of the handler *)

Ceil(n, d) == (n + d - 1) \div d

\* the k-th consecutive slice of at most BATCH_SIZE elements of a
ChunkOf(a, k) == SubSeq(a, (k - 1) * BATCH_SIZE + 1, Min(k * BATCH_SIZE, Len(a)))

\* lookupIPs has returned its results (the handler may have answered since)
Returned(r) == pc[r] = "returned" \/ response[r].status = 200

\* every OK response so far carried one record per address of its chunk
BodiesFitUpTo(r, n) ==
    \A k \in 1..n :
        answers[r][k].kind = "ok" => Len(answers[r][k].body) = Len(sent[r][k])

AllBodiesFit(r) == BodiesFitUpTo(r, Len(answers[r]))

\* C1, as stated: whatever the outbound calls answer, the sequence lookupIPs
\* returns has one record per address, and the success envelope's total is
\* the number of records in its results.
C1_LengthForAnyOutcome ==
    \A r \in Reqs :
        /\ pc[r] = "returned" => Len(results[r]) = Len(ips[r])
        /\ response[r].status = 200 =>
              /\ Len(response[r].results) = Len(ips[r])
              /\ response[r].total = Len(response[r].results)

\* C1, amended: when every OK response carries one record per address of its
\* chunk, then however many calls answer non-OK, the sequence lookupIPs
\* returns has one record per address, and the success envelope's total is
\* the number of records in its results.
C1_LengthWhenBodiesFit ==
    \A r \in Reqs :
        AllBodiesFit(r) =>
            /\ pc[r] = "returned" => Len(results[r]) = Len(ips[r])
            /\ response[r].status = 200 =>
                  /\ Len(response[r].results) = Len(ips[r])
                  /\ response[r].total = Len(response[r].results)

\* a request of MAX_IPS addresses answered 200 although a call was non-OK
C1_Witness ==
    \E r \in Reqs :
        /\ response[r].status = 200
        /\ Len(ips[r]) = MAX_IPS
        /\ AllBodiesFit(r)
        /\ \E k \in 1..Len(answers[r]) : answers[r][k].kind = "http"

\* C2: a non-OK response or a transport error of an outbound call never makes
\* lookupIPs throw and never turns the request into an internal error.
C2_TransportFailureNeverThrows ==
    \A r \in Reqs :
        (answers[r] # <<>> /\ answers[r][Len(answers[r])].kind \in {"http", "reject"})
            => (pc[r] # "threw" /\ response[r].status # 500)

\* the records the dispatcher owes for the k-th settled call
Owed(r, k) ==
    LET a == answers[r][k]
    IN  IF a.kind = "http"
        THEN [q \in 1..Len(sent[r][k]) |->
                 [query |-> sent[r][k][q], status |-> "fail",
                  message |-> "HTTP " \o ToString(a.status)]]
        ELSE IF a.kind = "ok" THEN a.body
        ELSE <<>>

RECURSIVE OwedBefore(_, _)
OwedBefore(r, k) ==
    IF k <= 1 THEN 0 ELSE OwedBefore(r, k - 1) + Len(Owed(r, k - 1))

\* C3, as stated: the failure records of a non-OK chunk k occupy exactly the
\* positions of chunk k in the result sequence, and every chunk that answered
\* OK has its upstream records at its own positions.
C3_FailureRecordsAtChunkPositions ==
    \A r \in Reqs : \A k \in 1..Len(answers[r]) :
        answers[r][k].kind = "http" =>
            /\ Len(results[r]) >= (k - 1) * BATCH_SIZE + Len(sent[r][k])
            /\ SubSeq(results[r], (k - 1) * BATCH_SIZE + 1,
                      (k - 1) * BATCH_SIZE + Len(sent[r][k])) = Owed(r, k)
            /\ \A j \in 1..Len(answers[r]) :
                  answers[r][j].kind = "ok" =>
                      /\ Len(results[r]) >= (j - 1) * BATCH_SIZE + Len(sent[r][j])
                      /\ SubSeq(results[r], (j - 1) * BATCH_SIZE + 1,
                                (j - 1) * BATCH_SIZE + Len(sent[r][j])) = Owed(r, j)

\* C3, amended: the failure records of a non-OK chunk k (one per address of
\* the chunk, in chunk order, with the address, 'fail' and the HTTP status)
\* directly follow the records appended for the chunks before it, which are
\* the positions of chunk k when every earlier OK response carried one record
\* per address; every OK chunk's upstream records stand unchanged and in
\* order directly after the records of the chunks before it.
C3_FailureRecordsInOrder ==
    \A r \in Reqs : \A k \in 1..Len(answers[r]) :
        /\ Len(results[r]) >= OwedBefore(r, k) + Len(Owed(r, k))
        /\ SubSeq(results[r], OwedBefore(r, k) + 1,
                  OwedBefore(r, k) + Len(Owed(r, k))) = Owed(r, k)
        /\ answers[r][k].kind = "http" => Len(Owed(r, k)) = Len(sent[r][k])
        /\ BodiesFitUpTo(r, k - 1) => OwedBefore(r, k) = (k - 1) * BATCH_SIZE

\* three chunks, the second answered non-OK, the others as the service should
C3_Witness ==
    \E r \in Reqs :
        /\ response[r].status = 200
        /\ Len(answers[r]) = 3
        /\ answers[r][1].kind = "ok"
        /\ answers[r][2] = [kind |-> "http", status |-> 500]
        /\ answers[r][3].kind = "ok"
        /\ AllBodiesFit(r)

\* C4: the chunks sent are the consecutive slices of at most BATCH_SIZE
\* addresses, in order; a run that completes has issued ceil(N / BATCH_SIZE)
\* calls, and every address is in exactly one chunk.
C4_ChunksPartition ==
    \A r \in Reqs :
        /\ \A k \in 1..Len(sent[r]) :
              /\ sent[r][k] = ChunkOf(ips[r], k)
              /\ Len(sent[r][k]) \in 1..BATCH_SIZE
        /\ Returned(r) =>
              /\ Len(sent[r]) = Ceil(Len(ips[r]), BATCH_SIZE)
              /\ Concat(sent[r]) = ips[r]
              /\ \A p \in 1..Len(ips[r]) :
                    Cardinality({kq \in (1..Len(sent[r])) \X (1..BATCH_SIZE) :
                                    /\ kq[2] <= Len(sent[r][kq[1]])
                                    /\ sent[r][kq[1]][kq[2]] = ips[r][p]}) = 1

\* a completed run over MAX_IPS addresses: two full chunks and a shorter one
C4_Witness ==
    \E r \in Reqs :
        /\ Returned(r)
        /\ Len(ips[r]) = 2 * BATCH_SIZE + 1
        /\ Len(sent[r]) = 3
        /\ Len(sent[r][1]) = BATCH_SIZE
        /\ Len(sent[r][2]) = BATCH_SIZE
        /\ Len(sent[r][3]) = 1

\* C5: a request whose address set is empty (missing and empty input
\* included) is answered 400 with the rejected tokens, one with more than
\* MAX_IPS addresses is answered 400 with the maximum and the count, neither
\* makes an outbound call, and exactly MAX_IPS addresses are dispatched.
C5_ValidationBeforeDispatch ==
    \A r \in Reqs :
        pc[r] # "idle" =>
            LET in == OrEmptyString(input[r])
                n == Len(normalizeIPs(in).ips)
            IN  /\ n = 0 =>
                      /\ sent[r] = <<>>
                      /\ response[r].status = 400
                      /\ response[r].rejected = TokenList(in)
                /\ input[r] \in {Missing, Str(<<>>)} =>
                      /\ n = 0
                      /\ response[r].rejected = <<>>
                /\ n > MAX_IPS =>
                      /\ sent[r] = <<>>
                      /\ response[r].status = 400
                      /\ response[r].error =
                             "at most " \o ToString(MAX_IPS) \o ", got " \o ToString(n)
                /\ n \in 1..MAX_IPS =>
                      /\ Len(sent[r]) >= 1
                      /\ response[r].status # 400

\* MAX_IPS + 1 addresses, refused before any call
C5_Witness ==
    \E r \in Reqs :
        /\ Len(ips[r]) = MAX_IPS + 1
        /\ response[r].status = 400
        /\ sent[r] = <<>>

InFlight(r) == IF pc[r] \in {"fetch", "json"} THEN 1 ELSE 0

\* C8: every earlier call has settled before a call is issued, so at most one
\* is in flight; a call after the first is issued only once a whole pacing
\* suspension has elapsed since the call before it was handled; one suspension
\* separates consecutive calls, none follows the last, and a completed run
\* over K chunks has made K - 1 of them.
C8_SequentialAndPaced ==
    \A r \in Reqs :
        /\ Len(sent[r]) = Len(answers[r]) + InFlight(r)
        /\ (InFlight(r) = 1 /\ Len(sent[r]) > 1) =>
              (waited[r] >= SLEEP_MS /\ timer[r] = 0)
        /\ sleeps[r] = IF pc[r] = "sleep" THEN Len(sent[r])
                       ELSE Max(0, Len(sent[r]) - 1)
        /\ Returned(r) =>
              sleeps[r] = Ceil(Len(ips[r]), BATCH_SIZE) - 1

\* a completed run of three calls and two suspensions
C8_Witness ==
    \E r \in Reqs :
        /\ Returned(r)
        /\ Len(sent[r]) = 3
        /\ sleeps[r] = 2
        /\ waited[r] >= SLEEP_MS

RECURSIVE SumLens(_, _)
SumLens(ss, k) == IF k = 0 THEN 0 ELSE SumLens(ss, k - 1) + Len(ss[k])

Handled(r) ==
    Cardinality({k \in 1..Len(answers[r]) : answers[r][k].kind \in {"http", "ok"}})

\* C9: onProgress is invoked once per chunk handled, before the next call is
\* issued, with the number of addresses of the chunks completed so far and N;
\* the counts never decrease, never exceed N, and the last one of a completed
\* run is N.
C9_ProgressPerChunk ==
    \A r \in Reqs :
        LET log == progressLog[r]
            N == Len(ips[r])
        IN  /\ Len(log) = Handled(r)
            /\ InFlight(r) = 1 => Len(log) = Len(sent[r]) - 1
            /\ pc[r] = "sleep" => Len(log) = Len(sent[r])
            /\ \A k \in 1..Len(log) :
                  /\ log[k] = <<SumLens(sent[r], k), N>>
                  /\ log[k][1] <= N
                  /\ k > 1 => log[k - 1][1] <= log[k][1]
            /\ Returned(r) =>
                  /\ Len(log) = Ceil(N, BATCH_SIZE)
                  /\ log[Len(log)] = <<N, N>>

\* a completed run over 2 * BATCH_SIZE + 1 addresses reported three times
C9_Witness ==
    \E r \in Reqs :
        /\ Returned(r)
        /\ progressLog[r] = << <<BATCH_SIZE, 2 * BATCH_SIZE + 1>>,
                               <<2 * BATCH_SIZE, 2 * BATCH_SIZE + 1>>,
                               <<2 * BATCH_SIZE + 1, 2 * BATCH_SIZE + 1>> >>

----------------------------------------------------------------------------
(* Properties of normalizeIPs, under SpecNorm *)

\* the position of the first occurrence of x in list
FirstIndex(list, x) ==
    CHOOSE k \in 1..Len(list) : list[k] = x /\ \A j \in 1..(k - 1) : list[j] # x

\* the j-th smallest element of a set of positions
NthOf(S, j) == CHOOSE k \in S : Cardinality({m \in S : m <= k}) = j

\* C6: the address set normalizeIPs returns has no two equal elements, holds
\* exactly the tokens that pass isLikelyIP, and orders them by their first
\* occurrence among the tokens.
C6_UniqueInFirstOccurrenceOrder ==
    \A r \in Reqs :
        pc[r] = "normalized" =>
            LET list == TokenList(input[r])
                a == ips[r]
            IN  /\ \A p, q \in 1..Len(a) : p # q => a[p] # a[q]
                /\ \A p \in 1..Len(a) : isLikelyIP(a[p])
                /\ {a[p] : p \in 1..Len(a)}
                       = {list[k] : k \in {m \in 1..Len(list) : isLikelyIP(list[m])}}
                /\ \A p, q \in 1..Len(a) :
                      p < q => FirstIndex(list, a[p]) < FirstIndex(list, a[q])

\* a string of three passing tokens, one of them a repetition
C6_Witness ==
    \E r \in Reqs :
        /\ pc[r] = "normalized"
        /\ input[r].kind = "string"
        /\ Len(TokenList(input[r])) = 3
        /\ rejected[r] = <<>>
        /\ Len(ips[r]) = 2

\* C7: rejected is the subsequence of the tokens that fail isLikelyIP, in
\* their order and with their repetitions, so that rejected and passing
\* tokens together count every token once; with no passing token, rejected is
\* the whole token list.
C7_RejectedIsFailingSubsequence ==
    \A r \in Reqs :
        pc[r] = "normalized" =>
            LET list == TokenList(input[r])
                failing == {k \in 1..Len(list) : ~isLikelyIP(list[k])}
                passing == {k \in 1..Len(list) : isLikelyIP(list[k])}
            IN  /\ Len(rejected[r]) = Cardinality(failing)
                /\ \A j \in 1..Len(rejected[r]) :
                      rejected[r][j] = list[NthOf(failing, j)]
                /\ Len(rejected[r]) + Cardinality(passing) = Len(list)
                /\ ips[r] = <<>> => rejected[r] = list

\* a failing token met twice next to a passing one, and rejected twice
C7_Witness ==
    \E r \in Reqs :
        /\ pc[r] = "normalized"
        /\ Len(ips[r]) = 1
        /\ Len(rejected[r]) = 2
        /\ rejected[r][1] = rejected[r][2]

----------------------------------------------------------------------------
(* Independence of concurrent requests, under SpecPair *)

\* the records a run of lookupIPs on its own holds after its first k calls
\* have settled as ans[1..k]
RECURSIVE AloneResults(_, _, _)
AloneResults(a, ans, k) ==
    IF k = 0 THEN <<>>
    ELSE AloneResults(a, ans, k - 1) \o
            (IF ans[k].kind = "http"
             THEN [q \in 1..Len(ChunkOf(a, k)) |->
                      [query |-> ChunkOf(a, k)[q], status |-> "fail",
                       message |-> "HTTP " \o ToString(ans[k].status)]]
             ELSE IF ans[k].kind = "ok" THEN ans[k].body
             ELSE <<>>)

\* C10: under every interleaving of two requests, the chunks, the result
\* sequence and the response envelope of each are those of that request run
\* alone on its own input against the answers its own calls received.
C10_RequestsIndependent ==
    \A r \in Reqs :
        pc[r] # "idle" =>
            LET own == normalizeIPs(OrEmptyString(input[r]))
                alone == AloneResults(own.ips, answers[r], Len(answers[r]))
            IN  /\ ips[r] = own.ips
                /\ rejected[r] = own.rejected
                /\ sent[r] = [k \in 1..Len(sent[r]) |-> ChunkOf(own.ips, k)]
                /\ results[r] = alone
                /\ response[r].status = 200 =>
                      response[r] = [status |-> 200, total |-> Len(own.ips),
                                     rejected |-> own.rejected, results |-> alone]

\* two requests over the same addresses, both answered 200, whose calls were
\* answered differently
C10_Witness ==
    \E r, q \in Reqs :
        /\ r # q
        /\ response[r].status = 200
        /\ response[q].status = 200
        /\ ips[r] = ips[q]
        /\ Len(sent[r]) = 2
        /\ answers[r] # answers[q]
        /\ results[r] # results[q]

====
